---- MODULE Spec2Model ----
(***************************************************************************)
(* A model of gwf-manager's graph-construction core: the Manager registry  *)
(* (manager.py), the cache guard (decorators/caching.py) and the path      *)
(* utilities (utilities.py).                                               *)
(*                                                                         *)
(* Strings that the code concatenates or compares by prefix (paths, hex    *)
(* digests, file contents) are sequences of tokens; a token is one         *)
(* character ("a", "b", "/", "\n") or the directory name "output" taken as *)
(* one unit (no other token sequence spells it).  Names, task ids and      *)
(* mapping keys are TLA+ strings.  A template instance is an index into    *)
(* heap, so that two templates with equal fields are still two instances.  *)
(***************************************************************************)
EXTENDS Integers, Sequences, FiniteSets, TLC

\* ------------------------------------------------------------------ bounds
\* operations (submit, guarded call, update, get, execute) in one construction
MaxOps == 3
\* width of a hex digest, in tokens (hashlib's hexdigest is fixed-width)
HexLen == 2
\* fingerprint-bearing arguments of a guarded call in the digest specification
MaxSamples == 1
\* leaf paths in the result of a guarded call in the digest specification
MaxLeaves == 2
\* leaf paths among the inputs, and among the outputs, of a template in the
\* scratch specification
MaxPaths == 2
\* operations on one SampleList, and samples handed to one operation
MaxListOps == 4
MaxItems == 2
MaxIndex == 3

\* ------------------------------------------------------------------ paths
NL == "\n"
\* the order of characters: the blank below the separator, the separator below letters
Rank(tok) == CASE tok = " " -> -1 [] tok = "/" -> 0 [] tok = "a" -> 1 [] tok = "b" -> 2 [] OTHER -> 3

\* pathlib orders paths part by part, which on the token sequence is the
\* lexicographic order with the separator below every other token
RECURSIVE PathLess(_, _)
PathLess(p, q) ==
    IF p = <<>> THEN q # <<>>
    ELSE IF q = <<>> THEN FALSE
    ELSE IF Head(p) = Head(q) THEN PathLess(Tail(p), Tail(q))
    ELSE Rank(Head(p)) < Rank(Head(q))

RECURSIVE Insert(_, _)
Insert(p, s) ==
    IF s = <<>> THEN <<p>>
    ELSE IF PathLess(Head(s), p) THEN <<Head(s)>> \o Insert(p, Tail(s))
    ELSE <<p>> \o s

RECURSIVE sorted(_)
sorted(s) == IF s = <<>> THEN <<>> ELSE Insert(Head(s), sorted(Tail(s)))

Range(s) == {s[i] : i \in 1..Len(s)}

RECURSIVE Concat(_)
Concat(ss) == IF ss = <<>> THEN <<>> ELSE Head(ss) \o Concat(Tail(ss))

\* ------------------------------------------------- nested values (results)
\* A value is a path, a sequence or a mapping; items of a sequence carry the
\* key "" and items of a mapping their key, in insertion order.  None and a
\* value of any other type are tagged "none" and "other".
Leaf(p) == [tag |-> "path", p |-> p, items |-> <<>>]
List(vs) == [tag |-> "list", p |-> <<>>, items |-> [i \in 1..Len(vs) |-> [k |-> "", v |-> vs[i]]]]
Dict(kvs) == [tag |-> "dict", p |-> <<>>, items |-> kvs]
None == [tag |-> "none", p |-> <<>>, items |-> <<>>]
Other == [tag |-> "other", p |-> <<>>, items |-> <<>>]
KV(k, v) == [k |-> k, v |-> v]

\* utilities.flatten
flattenShallow(obj) ==
    IF obj.tag \in {"dict", "list"}
    THEN Concat([i \in 1..Len(obj.items) |->
                    IF obj.items[i].v.tag \in {"dict", "list"} THEN <<>> ELSE <<obj.items[i].v.p>>])
    ELSE <<obj.p>>

RECURSIVE flatten(_)
flatten(obj) ==
    IF obj.tag \in {"dict", "list"}
    THEN Concat([i \in 1..Len(obj.items) |-> flatten(obj.items[i].v)])
    ELSE <<obj.p>>

\* hashlib.sha256 over the bytes it was fed, as a collision-free function of
\* that byte stream: the hex digest is the stream behind a marker, so that no
\* digest is empty and none is a raw stream
hexdigest(stream) == <<"sha256:">> \o stream

\* str.strip() of a file's text: leading and trailing whitespace removed
RECURSIVE lstrip(_)
lstrip(s) == IF s # <<>> /\ Head(s) \in {NL, " "} THEN lstrip(Tail(s)) ELSE s

Reverse(s) == [i \in 1..Len(s) |-> s[Len(s) + 1 - i]]

strip(s) == Reverse(lstrip(Reverse(lstrip(s))))

\* ---------------------------------------------------------------- templates
\* An AnonymousTarget: inputs, outputs and the script.  A script is the text
\* cmd (a sequence of tokens), or for the digest-writing job
\* "echo '<hash>' > <file>".
Script(cmd) == [cmd |-> <<cmd>>, hash |-> <<>>, file |-> <<>>]
Template(inputs, outputs, spec) == [inputs |-> inputs, outputs |-> outputs, spec |-> spec]

\* task_id = None
NoTask == "<None>"

\* @attrs.define class Task: no targets, no outputs, should_submit = True
Task == [targets |-> {}, outputs |-> <<>>, should_submit |-> TRUE]

\* Manager.__init__: empty registries.  heap holds every template instance
\* created so far, registered or not.
NewManager == [heap |-> <<>>, targets |-> <<>>, tasks |-> <<>>]

\* self.tasks[task_id] on the defaultdict: the task is created when absent
Touch(tasks, task_id) == IF task_id \in DOMAIN tasks THEN tasks ELSE tasks @@ (task_id :> Task)

\* name in self.targets, self.targets[name]  (a dict in insertion order)
Registered(M, name) == \E i \in 1..Len(M.targets) : M.targets[i].name = name
Stored(M, name) == M.targets[CHOOSE i \in 1..Len(M.targets) : M.targets[i].name = name].tmpl

\* a job-producing function builds a new template instance
NewTemplate(M, rec) == [M EXCEPT !.heap = Append(@, rec)]

Raise(M, kind) == [M |-> M, raised |-> kind, value |-> None]
Return(M, value) == [M |-> M, raised |-> "", value |-> value]

\* Manager.submit, lines 54-61: the registry after the call
RegisterOverwrite(M, name, template) ==
    IF Registered(M, name)
    THEN [i \in 1..Len(M.targets) |->
            IF M.targets[i].name = name THEN [name |-> name, tmpl |-> template] ELSE M.targets[i]]
    ELSE Append(M.targets, [name |-> name, tmpl |-> template])

Register(M, name, template) ==
    IF Registered(M, name) THEN M.targets
    ELSE Append(M.targets, [name |-> name, tmpl |-> template])

\* Manager.submit, lines 63-64: the task's target set gains the canonical template
AddToTaskGiven(tasks, task_id, canonical, given) ==
    IF task_id = NoTask THEN tasks
    ELSE [Touch(tasks, task_id) EXCEPT ![task_id].targets = @ \cup {given}]

AddToTask(tasks, task_id, canonical, given) ==
    IF task_id = NoTask THEN tasks
    ELSE [Touch(tasks, task_id) EXCEPT ![task_id].targets = @ \cup {canonical}]

\* Manager.submit; template is an instance (an index of M.heap).  The value
\* returned is the canonical instance.
submitTaskFirst(M, name, template, task_id) ==
    IF Registered(M, name) /\ M.heap[Stored(M, name)].spec # M.heap[template].spec
    THEN Raise([M EXCEPT !.tasks = AddToTask(M.tasks, task_id, template, template)], "AssertionError")
    ELSE [M |-> [M EXCEPT !.targets = Register(M, name, template),
                          !.tasks = AddToTask(M.tasks, task_id,
                                              IF Registered(M, name) THEN Stored(M, name) ELSE template,
                                              template)],
          raised |-> "", value |-> IF Registered(M, name) THEN Stored(M, name) ELSE template]

submitUnchecked(M, name, template, task_id) ==
    [M |-> [M EXCEPT !.targets = Register(M, name, template),
                     !.tasks = AddToTask(M.tasks, task_id,
                                         IF Registered(M, name) THEN Stored(M, name) ELSE template,
                                         template)],
     raised |-> "", value |-> IF Registered(M, name) THEN Stored(M, name) ELSE template]

submit(M, name, template, task_id) ==
    IF Registered(M, name) /\ M.heap[Stored(M, name)].spec # M.heap[template].spec
    THEN Raise(M, "AssertionError")
    ELSE LET targets == Register(M, name, template)
             canonical == IF Registered(M, name) THEN Stored(M, name) ELSE template
             tasks == AddToTask(M.tasks, task_id, canonical, template)
         IN  [M |-> [M EXCEPT !.targets = targets, !.tasks = tasks],
              raised |-> "", value |-> canonical]

\* Manager.update_task_output: dict.update of the task's outputs
update_task_outputReplace(M, task_id, paths_dict) ==
    LET tasks == Touch(M.tasks, task_id)
        keys == {paths_dict.items[i].k : i \in 1..Len(paths_dict.items)}
        val(k) == paths_dict.items[CHOOSE i \in 1..Len(paths_dict.items) : paths_dict.items[i].k = k].v
    IN  [M EXCEPT !.tasks = [tasks EXCEPT ![task_id].outputs = [k \in keys |-> val(k)]]]

update_task_outputKeepOld(M, task_id, paths_dict) ==
    LET tasks == Touch(M.tasks, task_id)
        old == tasks[task_id].outputs
        keys == {paths_dict.items[i].k : i \in 1..Len(paths_dict.items)}
        val(k) == paths_dict.items[CHOOSE i \in 1..Len(paths_dict.items) : paths_dict.items[i].k = k].v
        new == [k \in DOMAIN old \cup keys |-> IF k \in DOMAIN old THEN old[k] ELSE val(k)]
    IN  [M EXCEPT !.tasks = [tasks EXCEPT ![task_id].outputs = new]]

update_task_output(M, task_id, paths_dict) ==
    LET tasks == Touch(M.tasks, task_id)
        old == tasks[task_id].outputs
        keys == {paths_dict.items[i].k : i \in 1..Len(paths_dict.items)}
        val(k) == paths_dict.items[CHOOSE i \in 1..Len(paths_dict.items) : paths_dict.items[i].k = k].v
        new == [k \in DOMAIN old \cup keys |-> IF k \in keys THEN val(k) ELSE old[k]]
    IN  [M EXCEPT !.tasks = [tasks EXCEPT ![task_id].outputs = new]]

\* Manager.get_task_output
get_task_output(M, task_id, output_name) ==
    IF task_id \notin DOMAIN M.tasks THEN Raise(M, "Exception")
    ELSE IF output_name \notin DOMAIN M.tasks[task_id].outputs THEN Raise(M, "Exception")
    ELSE Return(M, M.tasks[task_id].outputs[output_name])

\* Manager.execute_workflow, lines 75-85: the final skip set
SkipSetNoSubtract(tasks) ==
    UNION {tasks[t].targets : t \in {u \in DOMAIN tasks : ~tasks[u].should_submit}}

SkipSet(tasks) ==
    LET targets_should_submit ==
            UNION {tasks[t].targets : t \in {u \in DOMAIN tasks : tasks[u].should_submit}}
        targets_shouldnt_submit ==
            UNION {tasks[t].targets : t \in {u \in DOMAIN tasks : ~tasks[u].should_submit}}
    IN  targets_shouldnt_submit \ targets_should_submit

\* utilities.legalize_for_gwf: "-" replaced by "_"
legalize_for_gwf(name) == IF name = "n-2" THEN "n_2" ELSE name

\* SelectSeq with the test written in place
RECURSIVE Keep(_, _)
Keep(s, skip) ==
    IF s = <<>> THEN <<>>
    ELSE IF Head(s).tmpl \in skip THEN Keep(Tail(s), skip)
    ELSE <<[name |-> legalize_for_gwf(Head(s).name), tmpl |-> Head(s).tmpl]>> \o Keep(Tail(s), skip)

\* manager._cast_to_str: containers keep their shape, every leaf becomes a str
RECURSIVE cast_to_str(_)
cast_to_str(obj) ==
    IF obj.tag \in {"dict", "list"}
    THEN [tag |-> obj.tag, p |-> obj.p,
          items |-> [i \in 1..Len(obj.items) |-> [k |-> obj.items[i].k, v |-> cast_to_str(obj.items[i].v)]]]
    ELSE [tag |-> "str", p |-> obj.p, items |-> <<>>]

\* manager._legalize_template: the template's inputs and outputs are cast in place
legalize_template(template) ==
    [inputs |-> cast_to_str(template.inputs), outputs |-> cast_to_str(template.outputs),
     spec |-> template.spec]

\* Manager.execute_workflow, lines 87-94: the registry after the loop; every
\* emitted instance has been legalized in place
Legalized(M, skip) ==
    [M EXCEPT !.heap = [t \in 1..Len(M.heap) |->
        IF t \notin skip /\ (\E i \in 1..Len(M.targets) : M.targets[i].tmpl = t)
        THEN legalize_template(M.heap[t]) ELSE M.heap[t]]]

\* what the engine receives for one target: its name and the template
Emits(M, kept) ==
    [i \in 1..Len(kept) |-> [name |-> kept[i].name, tmpl |-> kept[i].tmpl, template |-> M.heap[kept[i].tmpl]]]

\* manager._create_clean_up_target, lines 180-184
IsRunTaskTarget(M, target) ==
    \E id \in DOMAIN M.tasks : target \in M.tasks[id].targets /\ M.tasks[id].should_submit

IsTaskTarget(M, target) == \E id \in DOMAIN M.tasks : target \in M.tasks[id].targets

\* manager._create_clean_up_target, lines 186-188: the registered templates of no task
RECURSIVE FreeTargets(_, _)
FreeTargets(M, s) ==
    IF s = <<>> THEN <<>>
    ELSE (IF IsTaskTarget(M, Head(s).tmpl) THEN <<>> ELSE <<Head(s).tmpl>>) \o FreeTargets(M, Tail(s))

\* list(target.outputs.values())
values(outputs) == [i \in 1..Len(outputs.items) |-> outputs.items[i].v]

\* manager._create_clean_up_target, lines 190-192; outputs.values() exists on a
\* mapping only
CleanUpInputs(M, targets) ==
    Concat([i \in 1..Len(targets) |-> values(M.heap[targets[i]].outputs)])

HasValues(M, targets) == \A i \in 1..Len(targets) : M.heap[targets[i]].outputs.tag = "dict"

DoneFlag == <<"output", "/", "flags", "/", "done.flag">>

create_clean_up_target(M) ==
    Template(List(CleanUpInputs(M, FreeTargets(M, M.targets))),
             Dict(<<KV("done_flag", Leaf(DoneFlag))>>), Script("clean_up"))

\* the clean-up target as the engine receives it; it is no registered instance
CleanUp(template) == [name |-> "clean_up", tmpl |-> 0, template |-> legalize_template(template)]

\* Manager.execute_workflow, lines 96-101, after the loop has emitted kept
WithCleanUp(M, clean_up, kept) ==
    IF ~clean_up THEN Return(M, None) @@ [emits |-> kept]
    ELSE IF ~HasValues(M, FreeTargets(M, M.targets))
    THEN Raise(M, "AttributeError") @@ [emits |-> kept]
    ELSE Return(M, None) @@ [emits |-> Append(kept, CleanUp(create_clean_up_target(M)))]

Emitting(M, clean_up, kept) == WithCleanUp(M, clean_up, Emits(M, kept))

\* Manager.execute_workflow: the Manager afterwards, what it raised and what the
\* engine received, in order
execute_workflowReversed(M, clean_up) ==
    Emitting(Legalized(M, SkipSet(M.tasks)), clean_up, Reverse(Keep(M.targets, SkipSet(M.tasks))))

execute_workflow(M, clean_up) ==
    Emitting(Legalized(M, SkipSet(M.tasks)), clean_up, Keep(M.targets, SkipSet(M.tasks)))

\* Manager.__exit__: the workflow is executed unless an exception leaves the block
exit(M, clean_up, exc_type) ==
    IF exc_type = "" THEN execute_workflow(M, clean_up)
    ELSE Return(M, None) @@ [emits |-> <<>>]

\* --------------------------------------------------------- scratch wrapper
\* os.path.isabs, os.path.dirname
isabs(p) == p # <<>> /\ Head(p) = "/"

RECURSIVE dirname(_)
dirname(p) ==
    IF \A i \in 1..Len(p) : p[i] # "/" THEN <<>>
    ELSE IF p[Len(p)] # "/" THEN dirname(SubSeq(p, 1, Len(p) - 1))
    ELSE IF Len(p) = 1 THEN p ELSE SubSeq(p, 1, Len(p) - 1)

\* one command line of a generated script: the command and its operands
Cmd(cmd, a, b) == [cmd |-> cmd, a |-> a, b |-> b]

\* scratch.py lines 40-51: paths that are absolute are passed over
NotFiltered(flat) == Range(flat)

Relative(flat) == {p \in Range(flat) : ~isabs(p)}

\* scratch.py lines 39-51: the sets of commands
MkdirCmds(flat) == {Cmd("mkdir -p", dirname(p), <<>>) : p \in Relative(flat)}
SymlinkCmds(flat) == {Cmd("ln -s", <<"${GWF_EXEC_WORKFLOW_ROOT}", "/">> \o p, p) : p \in Relative(flat)}
MvCmds(flat) == {Cmd("mv", <<"${SCRATCH_DIR}", "/">> \o p, p) : p \in Relative(flat)}

\* sorted() of a set of command lines: the order of their text
CmdLess(x, y) == PathLess(x.a \o <<" ">> \o x.b, y.a \o <<" ">> \o y.b)

RECURSIVE SortedCmds(_)
SortedCmds(S) ==
    IF S = {} THEN <<>>
    ELSE LET first == CHOOSE x \in S : \A y \in S \ {x} : CmdLess(x, y)
         IN  <<first>> \o SortedCmds(S \ {first})

\* template.spec.strip()
strip_spec(spec) == [spec EXCEPT !.cmd = strip(@)]

\* scratch.py lines 55-67, 69, 71-84: the three parts of the generated script
StageIn(flat_inputs, flat_outputs, scratch_path) ==
    <<Cmd("SCRATCH_DIR=", <<scratch_path>>, <<>>), Cmd("mkdir -p", <<"${SCRATCH_DIR}">>, <<>>),
      Cmd("cd", <<"${SCRATCH_DIR}">>, <<>>)>>
        \o SortedCmds(MkdirCmds(flat_inputs)) \o SortedCmds(SymlinkCmds(flat_inputs))
        \o SortedCmds(MkdirCmds(flat_outputs))

Body(spec) == <<[cmd |-> "body", a |-> <<>>, b |-> <<>>, body |-> strip_spec(spec)]>>

StageOut(flat_outputs) ==
    <<Cmd("sync", <<>>, <<>>), Cmd("cd", <<"${GWF_EXEC_WORKFLOW_ROOT}">>, <<>>)>>
        \o SortedCmds(MkdirCmds(flat_outputs)) \o SortedCmds(MvCmds(flat_outputs))
        \o <<Cmd("rm -rf", <<"${SCRATCH_DIR}">>, <<>>)>>

\* scratch.py lines 53-86: the parts in the order of the f-string
AssembleBodyFirst(stage_in, body, stage_out) == body \o stage_in \o stage_out

Assemble(stage_in, body, stage_out) == stage_in \o body \o stage_out

Generated(lines) == [cmd |-> <<"scratch">>, hash |-> <<>>, file |-> <<>>, lines |-> lines]

\* scratch._augment_spec_with_scratch: the template's spec is replaced in place
augment_spec_with_scratchCast(template, scratch_path) ==
    [template EXCEPT !.inputs = cast_to_str(@),
                     !.spec = Generated(Assemble(StageIn(flatten(template.inputs), flatten(template.outputs),
                                                         scratch_path),
                                                 Body(template.spec), StageOut(flatten(template.outputs))))]

augment_spec_with_scratch(template, scratch_path) ==
    [template EXCEPT !.spec = Generated(Assemble(StageIn(flatten(template.inputs), flatten(template.outputs),
                                                         scratch_path),
                                                 Body(template.spec), StageOut(flatten(template.outputs))))]

\* scratch.use_wd_scratch, scratch.use_custom_scratch(scratch_path): the
\* template the wrapped function returned, augmented
use_wd_scratch(func_name, template) ==
    augment_spec_with_scratch(template, "scratch/" \o func_name \o "/${SLURM_JOB_ID}")

use_custom_scratch(scratch_path, template) == augment_spec_with_scratch(template, scratch_path)

\* a wrapped function that returns a registered instance: the instance is
\* augmented where it is
wrapped(M, template) == [M EXCEPT !.heap[template] = use_wd_scratch("job", @)]

\* ------------------------------------------------------------- cache guard
\* A keyword argument: a Sample (name, sha256) or anything else
Sample(name, tok) == [sample |-> TRUE, name |-> name, sha256 |-> [i \in 1..HexLen |-> tok]]
Plain == [sample |-> FALSE, name |-> "", sha256 |-> <<>>]

\* caching.py lines 20-26: the function's name and the name of the first Sample
\* among the keyword arguments
LastSample(kwargs) ==
    LET idx == {i \in 1..Len(kwargs) : kwargs[i].sample}
    IN  IF idx = {} THEN 0 ELSE CHOOSE i \in idx : \A j \in idx : i >= j

FirstSample(kwargs) ==
    LET idx == {i \in 1..Len(kwargs) : kwargs[i].sample}
    IN  IF idx = {} THEN 0 ELSE CHOOSE i \in idx : \A j \in idx : i <= j

TaskId(func_name, kwargs) ==
    IF FirstSample(kwargs) = 0 THEN func_name
    ELSE func_name \o "_" \o kwargs[FirstSample(kwargs)].name

\* manager.output_file("cache", f"{task_id}.sha256")
output_sha256_file(task_id) == <<"output", "/", "cache", "/", task_id \o ".sha256">>

\* caching.py lines 34-37: the digest file's stripped text, when the file exists
ReadCached(persisted, task_id) ==
    IF task_id \in DOMAIN persisted /\ persisted[task_id].exists
    THEN [exists |-> TRUE, text |-> strip(persisted[task_id].text)]
    ELSE [exists |-> FALSE, text |-> <<>>]

\* caching.py lines 40-43: sha256.update(v.sha256) for every Sample, in call order
RECURSIVE Fingerprints(_)
Fingerprints(kwargs) ==
    IF kwargs = <<>> THEN <<>>
    ELSE (IF Head(kwargs).sample THEN <<Head(kwargs).sha256>> ELSE <<>>) \o Fingerprints(Tail(kwargs))

\* caching.py lines 40-56: the digest of a call
DigestUnsorted(fingerprints, task_outputs) ==
    hexdigest(Concat(fingerprints) \o Concat(flatten(task_outputs)))

ComputeDigest(fingerprints, task_outputs) ==
    hexdigest(Concat(fingerprints) \o Concat(sorted(flatten(task_outputs))))

\* caching.py line 60: sha256_hash == cached_sha256_hash (None equals no string)
MatchIfCached(sha256_hash, cached) == cached.exists

Match(sha256_hash, cached) == cached.exists /\ sha256_hash = cached.text

\* list(a_set): some order of the set's members
RECURSIVE SetToSeq(_)
SetToSeq(S) ==
    IF S = {} THEN <<>>
    ELSE LET x == CHOOSE y \in S : TRUE IN <<x>> \o SetToSeq(S \ {x})

\* caching.py _create_task_cache_target
create_task_cache_target(M, targets, sha256_hash, sha256_file) ==
    LET all_target_inputs == UNION {Range(flatten(M.heap[t].inputs)) : t \in targets}
        all_target_outputs == UNION {Range(flatten(M.heap[t].outputs)) : t \in targets}
        inputs == SetToSeq(all_target_inputs \ all_target_outputs)
                    \o SetToSeq({q \in all_target_outputs : q # <<>> /\ Head(q) = "output"})
    IN  Template(List([i \in 1..Len(inputs) |-> Leaf(inputs[i])]),
                 Dict(<<KV("sha256_file", Leaf(sha256_file))>>),
                 [cmd |-> <<"echo">>, hash |-> sha256_hash, file |-> sha256_file])

\* The wrapped job-producing function: it builds and submits its jobs under the
\* task id it is given, then returns its result.
RECURSIVE RunJobs(_, _, _)
Rest(r, jobs, task_id) == IF r.raised # "" THEN r ELSE RunJobs(r.M, jobs, task_id)

RunJobs(M, jobs, task_id) ==
    IF jobs = <<>> THEN Return(M, None)
    ELSE Rest(submit(NewTemplate(M, Head(jobs).template), Head(jobs).name, Len(M.heap) + 1, task_id),
              Tail(jobs), task_id)

\* caching.py line 46: func(*args, **kwargs, task_id=task_id)
Returning(r, result) == (IF r.raised # "" THEN r ELSE Return(r.M, result)) @@ [invoked |-> 1]

InvokeUnlessCached(M, body, task_id, cached) ==
    IF cached.exists THEN Return(M, None) @@ [invoked |-> 0]
    ELSE Returning(RunJobs(M, body.jobs, task_id), body.result)

Invoke(M, body, task_id, cached) == Returning(RunJobs(M, body.jobs, task_id), body.result)

\* caching.py lines 60-61: on a hit, manager.tasks[task_id].should_submit = False
MarkTaskAssign(M, task_id, hit) ==
    [M EXCEPT !.tasks = [Touch(@, task_id) EXCEPT ![task_id].should_submit = ~hit]]

MarkTask(M, task_id, hit) ==
    IF hit THEN [M EXCEPT !.tasks = [Touch(@, task_id) EXCEPT ![task_id].should_submit = FALSE]]
    ELSE M

\* caching.py lines 63-71: the digest-writing job is submitted with task_id=None
CacheJobTaskIdOwn(task_id) == task_id

CacheJobTaskId(task_id) == NoTask

\* What a guarded call reports besides its outcome: the task id, the cached
\* digest it read, the digest it computed (empty when it got no further) and
\* how often the wrapped function ran.
Info(task_id, cached, invoked, sha256_hash) ==
    [task_id |-> task_id, cached |-> cached, invoked |-> invoked, sha256_hash |-> sha256_hash]

\* caching.py line 46: a falsy result counts as {}
OrSame(value) == value

OrEmpty(value) ==
    IF value.tag = "none" \/ (value.tag \in {"dict", "list"} /\ value.items = <<>>)
    THEN Dict(<<>>) ELSE value

\* caching.py lines 73-78: the outputs are merged into the task, the result returned
Merge(sub, task_id, task_outputs, info) ==
    IF sub.raised # "" THEN sub @@ info
    ELSE Return(update_task_output(sub.M, task_id, task_outputs), task_outputs) @@ info

\* caching.py lines 63-71: the digest-writing job is built from the task's
\* targets and submitted
SubmitCacheJob(M, task_id, sha256_hash) ==
    submit(NewTemplate(M, create_task_cache_target(M, M.tasks[task_id].targets, sha256_hash,
                                                   output_sha256_file(task_id))),
           "task_" \o task_id, Len(M.heap) + 1, CacheJobTaskId(task_id))

\* caching.py lines 58-78
Compare(M, task_id, cached, invoked, task_outputs, sha256_hash) ==
    Merge(SubmitCacheJob([MarkTask(M, task_id, Match(sha256_hash, cached)) EXCEPT !.tasks = Touch(@, task_id)],
                         task_id, sha256_hash),
          task_id, task_outputs, Info(task_id, cached, invoked, sha256_hash))

\* caching.py lines 46-56
DigestCheckLate(run, kwargs, task_id, cached, task_outputs) ==
    IF task_outputs.tag # "dict"
    THEN Raise(SubmitCacheJob([run.M EXCEPT !.tasks = Touch(@, task_id)], task_id, <<>>).M, "TaskOutputError")
            @@ Info(task_id, cached, run.invoked, <<>>)
    ELSE Compare(run.M, task_id, cached, run.invoked, task_outputs,
                 ComputeDigest(Fingerprints(kwargs), task_outputs))

Digest(run, kwargs, task_id, cached, task_outputs) ==
    IF task_outputs.tag # "dict"
    THEN Raise(run.M, "TaskOutputError") @@ Info(task_id, cached, run.invoked, <<>>)
    ELSE Compare(run.M, task_id, cached, run.invoked, task_outputs,
                 ComputeDigest(Fingerprints(kwargs), task_outputs))

Invoked(run, kwargs, task_id, cached) ==
    IF run.raised # ""
    THEN [M |-> run.M, raised |-> run.raised, value |-> None] @@ Info(task_id, cached, run.invoked, <<>>)
    ELSE Digest(run, kwargs, task_id, cached, OrEmpty(run.value))

\* caching.py lines 20-46
Guarded(M, call, task_id, cached) ==
    Invoked(Invoke(M, call.body, task_id, cached), call.kwargs, task_id, cached)

\* cache_task.wrapped: the whole guarded call.  call = [manager, func, kwargs, body]
cache_task(M, persisted, call) ==
    IF ~call.manager
    THEN Raise(M, "GwfManagerError") @@ Info("", [exists |-> FALSE, text |-> <<>>], 0, <<>>)
    ELSE Guarded(M, call, TaskId(call.func, call.kwargs),
                 ReadCached(persisted, TaskId(call.func, call.kwargs)))

\* ------------------------------------------------------------------ inputs
PA == <<"a">>
PB == <<"b">>
PAB == <<"a", "b">>
POut == <<"output", "/", "a">>

SA == Sample("a", "0")
SB == Sample("b", "1")

\* job templates a producer builds
J1 == Template(List(<<>>), Dict(<<KV("o", Leaf(PA))>>), Script("s1"))
\* outputs given as a list
J2 == Template(List(<<Leaf(PA)>>), List(<<Leaf(POut)>>), Script("s2"))
\* a template whose script is, text for text, that of a digest-writing job
JD == Template(List(<<>>), Dict(<<KV("sha256_file", Leaf(output_sha256_file("f_a")))>>),
               [cmd |-> <<"echo">>, hash |-> ComputeDigest(<<SA.sha256>>, Dict(<<KV("o", Leaf(PA))>>)),
                file |-> output_sha256_file("f_a")])

\* wrapped functions: the jobs they submit and what they return
B0 == [jobs |-> <<>>, result |-> None]
B1 == [jobs |-> <<[name |-> "n1", template |-> J1]>>, result |-> Dict(<<KV("o", Leaf(PA))>>)]
B2 == [jobs |-> <<[name |-> "n1", template |-> J2]>>, result |-> Other]
B3 == [jobs |-> <<>>, result |-> Dict(<<>>)]
Bodies == {B0, B1, B2, B3}

\* a call: the positional arguments, the keyword arguments in call order
\* (manager aside) and whether manager is among them
GuardedCalls ==
    {[manager |-> TRUE, func |-> "f", args |-> <<>>, kwargs |-> <<SA>>, body |-> b] : b \in Bodies}
        \cup {[manager |-> TRUE, func |-> "f", args |-> <<>>, kwargs |-> kw, body |-> B1] :
                    kw \in {<<SB>>, <<Plain, SA, SB>>}}
        \cup {[manager |-> TRUE, func |-> "f", args |-> <<SB>>, kwargs |-> <<SA>>, body |-> B0]}
        \cup {[manager |-> FALSE, func |-> "f", args |-> <<>>, kwargs |-> <<SA>>, body |-> B1]}

TaskIds == {"f_a", "f_b"}
NewJobs == {[name |-> "n1", template |-> J1], [name |-> "n1", template |-> J2],
            [name |-> "n-2", template |-> J1], [name |-> "task_f_a", template |-> JD]}
Mappings == {Dict(<<KV("o", Leaf(PB))>>), Dict(<<KV("p", Leaf(PB)), KV("o", Leaf(PAB))>>),
             Dict(<<KV("p", Leaf(PB))>>)}
Keys == {"o"}

\* digest files found on disk when construction starts: none, or what an
\* earlier run's digest-writing job wrote (echo adds the newline)
Written(kwargs, body) ==
    [exists |-> TRUE, text |-> ComputeDigest(Fingerprints(kwargs), Dict(body.result.items)) \o <<NL>>]
Absent == [exists |-> FALSE, text |-> <<>>]
PersistedStates ==
    {("f_a" :> x) @@ ("f_b" :> y) : x \in {Absent, Written(<<SA>>, B1)},
                                     y \in {Absent, Written(<<SB>>, B1)}}

\* ------------------------------------------------------------- SampleList
\* A SampleList is a list of samples with the index _sample_dict from names to
\* samples.  Two samples may have the same name and differ (id stands for the
\* rest of a sample); an argument of the constructor may be a dict, which
\* from_dict turns into a sample.
SampleOf(name, id) == [kind |-> "Sample", name |-> name, id |-> id]
DictOf(name, id) == [kind |-> "dict", name |-> name, id |-> id]
from_dict(data) == SampleOf(data.name, data.id)

Raised(self, raised) == [list |-> self.list, sample_dict |-> self.sample_dict, raised |-> raised]
Done(list, sample_dict) == [list |-> list, sample_dict |-> sample_dict, raised |-> ""]

\* self._sample_dict[item.name] = item, for every item in turn
RECURSIVE SetAll(_, _)
SetAll(sample_dict, items) ==
    IF items = <<>> THEN sample_dict
    ELSE SetAll((Head(items).name :> Head(items)) @@ sample_dict, Tail(items))

\* the loop of __init__: the first sample whose name is in the index raises
RECURSIVE IndexAll(_, _, _)
IndexAll(list, sample_dict, rest) ==
    IF rest = <<>> THEN Done(list, sample_dict)
    ELSE IF Head(rest).name \in DOMAIN sample_dict
         THEN [list |-> list, sample_dict |-> sample_dict, raised |-> "ValueError"]
         ELSE IndexAll(list, (Head(rest).name :> Head(rest)) @@ sample_dict, Tail(rest))

Converted(samples) ==
    [i \in 1..Len(samples) |-> IF samples[i].kind = "dict" THEN from_dict(samples[i]) ELSE samples[i]]

SampleListInit(samples) == IndexAll(Converted(samples), <<>>, Converted(samples))

append(self, item) ==
    IF item.name \in DOMAIN self.sample_dict THEN Raised(self, "ValueError")
    ELSE Done(Append(self.list, item), (item.name :> item) @@ self.sample_dict)

extend(self, items) ==
    IF \E i \in 1..Len(items) : items[i].name \in DOMAIN self.sample_dict
    THEN Raised(self, "ValueError")
    ELSE Done(self.list \o items, SetAll(self.sample_dict, items))

\* list.insert: a negative index counts from the end, and the index is clamped
InsertAt(n, index) ==
    IF index < 0 THEN (IF index + n < 0 THEN 0 ELSE index + n)
    ELSE IF index > n THEN n ELSE index

insert(self, index, item) ==
    IF item.name \in DOMAIN self.sample_dict THEN Raised(self, "ValueError")
    ELSE Done(SubSeq(self.list, 1, InsertAt(Len(self.list), index)) \o <<item>>
                \o SubSeq(self.list, InsertAt(Len(self.list), index) + 1, Len(self.list)),
              (item.name :> item) @@ self.sample_dict)

IntKey(i) == [kind |-> "int", i |-> i]
SliceKey == [kind |-> "slice", i |-> 0]
\* list indexing: a negative index counts from the end; 0 when out of range
ItemAt(n, i) == IF i < 0 THEN (IF i + n < 0 THEN 0 ELSE i + n + 1) ELSE IF i >= n THEN 0 ELSE i + 1

delitem(self, key) ==
    IF key.kind = "slice" THEN Raised(self, "AttributeError")
    ELSE IF ItemAt(Len(self.list), key.i) = 0 THEN Raised(self, "IndexError")
    ELSE IF self.list[ItemAt(Len(self.list), key.i)].name \notin DOMAIN self.sample_dict
         THEN Raised(self, "KeyError")
    ELSE Done(SubSeq(self.list, 1, ItemAt(Len(self.list), key.i) - 1)
                \o SubSeq(self.list, ItemAt(Len(self.list), key.i) + 1, Len(self.list)),
              [name \in DOMAIN self.sample_dict \ {self.list[ItemAt(Len(self.list), key.i)].name}
                  |-> self.sample_dict[name]])

\* ------------------------------------------------------------------- state
VARIABLES
    manager,    \* the Manager: heap, targets, tasks, clean_up
    persisted,  \* the digest files on disk, by task id
    emitted,    \* what the engine has received, in order
    hist,       \* the operations so far: name, arguments, what each raised and returned
    prev,       \* the Manager before the last operation
    dg,         \* the digest specification's pair of calls
    sc,         \* the scratch specification's pair of wrapped templates and the run of a script
    sl          \* the sample-list specification's SampleList and its last operation

vars == <<manager, persisted, emitted, hist, prev, dg, sc, sl>>

\* the last operation
ret == IF hist = <<>> THEN [op |-> "init", raised |-> "", value |-> None, args |-> <<>>]
       ELSE hist[Len(hist)]
args == ret.args

NoCall == [set |-> FALSE, fingerprints |-> <<>>, task_outputs |-> None, leaves |-> <<>>, flat |-> <<>>,
           digest |-> <<>>]
NoPair == [a |-> NoCall, b |-> NoCall]

NoTemplate == Template(List(<<>>), List(<<>>), Script("")) @@ [options |-> ""]
NoWrap == [set |-> FALSE, entry |-> "", before |-> NoTemplate, after |-> NoTemplate]
NotRun == [pc |-> 0, root |-> FALSE, done |-> FALSE, last |-> ""]
NoSampleList ==
    [set |-> FALSE, list |-> <<>>, sample_dict |-> <<>>, op |-> "", raised |-> "",
     before |-> [list |-> <<>>, sample_dict |-> <<>>], n |-> 0]
NoScratch == [a |-> NoWrap, b |-> NoWrap, run |-> NotRun]

Init ==
    /\ \E clean_up \in BOOLEAN : manager = NewManager @@ [clean_up |-> clean_up]
    /\ persisted \in PersistedStates
    /\ emitted = <<>>
    /\ hist = <<>>
    /\ prev = manager
    /\ dg = NoPair
    /\ sc = NoScratch
    /\ sl = NoSampleList

Step(op, r, a) ==
    /\ Len(hist) < MaxOps
    /\ hist' = Append(hist, [op |-> op, raised |-> r.raised, value |-> r.value, args |-> a])
    /\ prev' = manager
    /\ manager' = r.M
    /\ UNCHANGED <<persisted, dg, sc, sl>>

\* a producer builds a template and submits it
SubmitNew ==
    \E job \in NewJobs, task_id \in TaskIds \cup {NoTask} :
        /\ Step("submit",
                submit(NewTemplate(manager, job.template), job.name, Len(manager.heap) + 1, task_id),
                [name |-> job.name, template |-> Len(manager.heap) + 1, task_id |-> task_id,
                 known |-> Registered(manager, job.name)])
        /\ UNCHANGED emitted

\* a template instance built earlier is submitted again, under another name
SubmitAgain ==
    \E template \in 1..Len(manager.heap), task_id \in TaskIds \cup {NoTask} :
        /\ template <= 1
        /\ Step("submit", submit(manager, "n-2", template, task_id),
                [name |-> "n-2", template |-> template, task_id |-> task_id,
                 known |-> Registered(manager, "n-2")])
        /\ UNCHANGED emitted

GuardedStep(call, r) ==
    Step("cache_task", r, [call |-> call, task_id |-> r.task_id, cached |-> r.cached,
                           invoked |-> r.invoked, sha256_hash |-> r.sha256_hash])

CacheTask ==
    \E call \in GuardedCalls :
        /\ GuardedStep(call, cache_task(manager, persisted, call))
        /\ UNCHANGED emitted

UpdateTaskOutput ==
    \E task_id \in TaskIds, paths_dict \in Mappings :
        /\ Step("update_task_output", Return(update_task_output(manager, task_id, paths_dict), None),
                [task_id |-> task_id, paths_dict |-> paths_dict])
        /\ UNCHANGED emitted

GetTaskOutput ==
    \E task_id \in TaskIds, output_name \in Keys :
        /\ Step("get_task_output", get_task_output(manager, task_id, output_name),
                [task_id |-> task_id, output_name |-> output_name])
        /\ UNCHANGED emitted

ExecuteStep(op, r, a) ==
    /\ Step(op, r, a @@ [emits |-> r.emits])
    /\ emitted' = emitted \o r.emits

\* execute_workflow called directly
Execute == ExecuteStep("execute", execute_workflow(manager, manager.clean_up), [exc_type |-> ""])

\* the construction block closes, normally or with the exception the last
\* operation raised
Exit ==
    \E exc_type \in {"", ret.raised} :
        ExecuteStep("exit", exit(manager, manager.clean_up, exc_type), [exc_type |-> exc_type])

\* a producer wrapped by use_wd_scratch returns the instance that its own call
\* of submit returned, which is the registered one
ScratchWrapped ==
    \E template \in 1..Len(manager.heap) :
        /\ template <= 1
        /\ \E k \in 1..Len(hist) :
              hist[k].op = "submit" /\ hist[k].raised = "" /\ hist[k].args.template = template
        /\ Step("use_wd_scratch", Return(wrapped(manager, template), template), [template |-> template])
        /\ UNCHANGED emitted

Next ==
    \/ SubmitNew \/ SubmitAgain \/ CacheTask \/ UpdateTaskOutput \/ GetTaskOutput \/ Execute \/ Exit
    \/ ScratchWrapped

Spec == Init /\ [][Next]_vars

\* ----------------------------------------------- the digest specification
\* Two guarded calls on a fresh Manager, of wrapped functions that submit
\* nothing: their keyword arguments and results range over every combination
\* of up to MaxSamples samples and up to MaxLeaves leaf paths in four shapes.
DPaths == {PA, PB, PAB}
LeafSeqs == UNION {[1..n -> DPaths] : n \in 0..MaxLeaves}
SampleSeqs == UNION {[1..n -> {SA, SB}] : n \in 0..MaxSamples}
Shapes == {"flat", "rekeyed", "list", "nested"}
Key(i) == "k" \o ToString(i)
Leaves(ls) == [i \in 1..Len(ls) |-> Leaf(ls[i])]

\* a result mapping whose leaves are ls, in that order of insertion
Shaped(shape, ls) ==
    CASE shape = "flat" -> Dict([i \in 1..Len(ls) |-> KV(Key(i), Leaf(ls[i]))])
      [] shape = "rekeyed" -> Dict([i \in 1..Len(ls) |-> KV(Key(Len(ls) + 1 - i), Leaf(ls[i]))])
      [] shape = "list" -> Dict(<<KV("x", List(Leaves(ls)))>>)
      [] shape = "nested" ->
            Dict(<<KV("x", Dict(<<KV("y", List(Leaves(IF ls = <<>> THEN <<>> ELSE <<Head(ls)>>)))>>)),
                   KV("z", List(Leaves(IF ls = <<>> THEN <<>> ELSE Tail(ls))))>>)

DigestCall(kwargs, shape, ls) ==
    [manager |-> TRUE, func |-> "f", args |-> <<>>, kwargs |-> kwargs,
     body |-> [jobs |-> <<>>, result |-> Shaped(shape, ls)]]

Called(kwargs, ls, call, r) ==
    [set |-> TRUE, fingerprints |-> [i \in 1..Len(kwargs) |-> kwargs[i].sha256],
     task_outputs |-> call.body.result, leaves |-> ls, flat |-> flatten(r.value),
     digest |-> r.sha256_hash]

DigestInit ==
    /\ manager = NewManager @@ [clean_up |-> TRUE]
    /\ persisted = ("f_a" :> Absent) @@ ("f_b" :> Absent)
    /\ emitted = <<>>
    /\ hist = <<>>
    /\ prev = manager
    /\ dg = NoPair
    /\ sc = NoScratch
    /\ sl = NoSampleList

FirstCall ==
    \E kwargs \in SampleSeqs, shape \in Shapes, ls \in LeafSeqs :
        /\ ~dg.a.set
        /\ dg' = [dg EXCEPT !.a = Called(kwargs, ls, DigestCall(kwargs, shape, ls),
                                         cache_task(manager, persisted, DigestCall(kwargs, shape, ls)))]
        /\ UNCHANGED <<manager, persisted, emitted, hist, prev, sc, sl>>

SecondCall ==
    \E kwargs \in SampleSeqs, shape \in Shapes, ls \in LeafSeqs :
        /\ dg.a.set /\ ~dg.b.set
        /\ dg' = [dg EXCEPT !.b = Called(kwargs, ls, DigestCall(kwargs, shape, ls),
                                         cache_task(manager, persisted, DigestCall(kwargs, shape, ls)))]
        /\ UNCHANGED <<manager, persisted, emitted, hist, prev, sc, sl>>

DigestNext == FirstCall \/ SecondCall

DigestSpec == DigestInit /\ [][DigestNext]_vars

\* ---------------------------------------------- the scratch specification
\* Two templates are passed through the scratch wrapper, the second with the
\* script body and the entry point of the first; or one is, and the script
\* generated for it is run line by line.  Inputs and outputs hold up to
\* MaxPaths leaf paths, relative and absolute, in any order and with repetition.
InPaths == {<<"a", "/", "b">>, <<"b">>, <<"/", "a">>}
OutPaths == {<<"b", "/", "a">>, <<"/", "b">>}
InSeqs == UNION {[1..n -> InPaths] : n \in 0..MaxPaths}
OutSeqs == UNION {[1..n -> OutPaths] : n \in 0..MaxPaths}
InShapes == {"list", "nested"}
\* script bodies, one indented and with a newline behind it
BodyTexts == {<<"x">>, <<" ", "x", NL>>}
Entries == {"wd", "custom"}

ScratchTemplate(shape, ls, lo, text) ==
    Template(Shaped(shape, ls), Shaped("flat", lo), [cmd |-> text, hash |-> <<>>, file |-> <<>>])
        @@ [options |-> "cores"]

Wrap(entry, template) ==
    IF entry = "wd" THEN use_wd_scratch("job", template) ELSE use_custom_scratch("custom", template)

Wrapping(entry, template) ==
    [set |-> TRUE, entry |-> entry, before |-> template, after |-> Wrap(entry, template)]

\* the shell runs one line of the script; a command succeeds or fails and the
\* next line follows, the body may also end the script (exit)
Outcomes(line) ==
    CASE line.cmd = "body" -> {"ok", "fail", "exit"}
      [] line.cmd = "rm -rf" -> {"ok"}
      [] OTHER -> {"ok", "fail"}

Exec(lines, run, outcome) ==
    [pc |-> run.pc + 1,
     root |-> IF outcome # "ok" THEN run.root
              ELSE IF lines[run.pc + 1].cmd = "rm -rf" THEN FALSE
              ELSE IF lines[run.pc + 1].cmd = "mkdir -p" /\ lines[run.pc + 1].a = <<"${SCRATCH_DIR}">> THEN TRUE
              ELSE run.root,
     done |-> run.pc + 1 = Len(lines) \/ (lines[run.pc + 1].cmd = "body" /\ outcome = "exit"),
     last |-> outcome]

ScratchInit ==
    /\ manager = NewManager @@ [clean_up |-> TRUE]
    /\ persisted = ("f_a" :> Absent) @@ ("f_b" :> Absent)
    /\ emitted = <<>>
    /\ hist = <<>>
    /\ prev = manager
    /\ dg = NoPair
    /\ sc = NoScratch
    /\ sl = NoSampleList

FirstWrap ==
    \E entry \in Entries, shape \in InShapes, ls \in InSeqs, lo \in OutSeqs, text \in BodyTexts :
        /\ ~sc.a.set
        /\ sc' = [sc EXCEPT !.a = Wrapping(entry, ScratchTemplate(shape, ls, lo, text))]
        /\ UNCHANGED <<manager, persisted, emitted, hist, prev, dg, sl>>

SecondWrap ==
    \E shape \in InShapes, ls \in InSeqs, lo \in OutSeqs :
        /\ sc.a.set /\ ~sc.b.set /\ sc.run.pc = 0
        /\ sc' = [sc EXCEPT !.b = Wrapping(sc.a.entry, ScratchTemplate(shape, ls, lo, sc.a.before.spec.cmd))]
        /\ UNCHANGED <<manager, persisted, emitted, hist, prev, dg, sl>>

RunStep ==
    \E outcome \in {"ok", "fail", "exit"} :
        /\ sc.a.set /\ ~sc.b.set /\ ~sc.run.done
        /\ outcome \in Outcomes(sc.a.after.spec.lines[sc.run.pc + 1])
        /\ sc' = [sc EXCEPT !.run = Exec(sc.a.after.spec.lines, sc.run, outcome)]
        /\ UNCHANGED <<manager, persisted, emitted, hist, prev, dg, sl>>

ScratchNext == FirstWrap \/ SecondWrap \/ RunStep

ScratchSpec == ScratchInit /\ [][ScratchNext]_vars

\* ------------------------------------------- the sample-list specification
\* One SampleList is constructed and then appended to, extended, inserted into
\* and deleted from; sl keeps the list, its index, the last operation with what
\* it raised, and the list and index before it.
SampleNames == {"a", "b"}
SampleIds == {1, 2}
Samples == {SampleOf(name, id) : name \in SampleNames, id \in SampleIds}
Dicts == {DictOf(name, id) : name \in SampleNames, id \in {1}}
ItemSeqs == UNION {[1..n -> Samples] : n \in 0..MaxItems}
ArgSeqs == UNION {[1..n -> Samples \cup Dicts] : n \in 0..MaxItems}
DelKeys == {IntKey(i) : i \in -MaxIndex..MaxIndex} \cup {SliceKey}

ListOp(op, r) ==
    /\ sl.set /\ sl.n < MaxListOps
    /\ sl' = [set |-> TRUE, list |-> r.list, sample_dict |-> r.sample_dict, op |-> op,
              raised |-> r.raised, before |-> [list |-> sl.list, sample_dict |-> sl.sample_dict],
              n |-> sl.n + 1]
    /\ UNCHANGED <<manager, persisted, emitted, hist, prev, dg, sc>>

SampleInit ==
    /\ manager = NewManager @@ [clean_up |-> TRUE]
    /\ persisted = ("f_a" :> Absent) @@ ("f_b" :> Absent)
    /\ emitted = <<>>
    /\ hist = <<>>
    /\ prev = manager
    /\ dg = NoPair
    /\ sc = NoScratch
    /\ sl = NoSampleList

\* SampleList(*args): when __init__ raises there is no list
Construct ==
    \E samples \in ArgSeqs :
        /\ ~sl.set /\ sl.n < MaxListOps
        /\ sl' = IF SampleListInit(samples).raised # ""
                 THEN [sl EXCEPT !.op = "init", !.raised = SampleListInit(samples).raised, !.n = @ + 1]
                 ELSE [set |-> TRUE, list |-> SampleListInit(samples).list,
                       sample_dict |-> SampleListInit(samples).sample_dict, op |-> "init", raised |-> "",
                       before |-> [list |-> <<>>, sample_dict |-> <<>>], n |-> sl.n + 1]
        /\ UNCHANGED <<manager, persisted, emitted, hist, prev, dg, sc>>

ListAppend == \E item \in Samples : ListOp("append", append(sl, item))
ListExtend == \E items \in ItemSeqs : ListOp("extend", extend(sl, items))
ListInsert == \E index \in -MaxIndex..MaxIndex, item \in Samples : ListOp("insert", insert(sl, index, item))
ListDelItem == \E key \in DelKeys : ListOp("delitem", delitem(sl, key))

SampleNext == Construct \/ ListAppend \/ ListExtend \/ ListInsert \/ ListDelItem

SampleSpec == SampleInit /\ [][SampleNext]_vars

\* ------------------------------------------------------------------ claims
EmittedTemplates(out) == {out[i].tmpl : i \in 1..Len(out)}
RegisteredTemplates(M) == {M.targets[i].tmpl : i \in 1..Len(M.targets)}
InSkipTask(M, t) == \E id \in DOMAIN M.tasks : t \in M.tasks[id].targets /\ ~M.tasks[id].should_submit
InRunTask(M, t) == \E id \in DOMAIN M.tasks : t \in M.tasks[id].targets /\ M.tasks[id].should_submit
InSomeTask(M, t) == \E id \in DOMAIN M.tasks : t \in M.tasks[id].targets
ShouldSubmit(M, id) == IF id \in DOMAIN M.tasks THEN M.tasks[id].should_submit ELSE TRUE
\* the guarded call hist[k] computed a digest equal to the one on disk
Hit(k) ==
    /\ hist[k].op = "cache_task"
    /\ hist[k].args.sha256_hash # <<>>
    /\ persisted[hist[k].args.task_id].exists
    /\ persisted[hist[k].args.task_id].text = hist[k].args.sha256_hash \o <<NL>>

\* C1: execute() emits a registered template exactly when it belongs to no task
\* whose should_submit is false or to some task whose should_submit is true; the
\* targets of a task whose digest matched are emitted only when a must-run task
\* shares them.
C1_SkipRule ==
    ret.op = "execute" =>
        /\ \A t \in RegisteredTemplates(manager) :
              (t \in EmittedTemplates(args.emits)) <=> (~InSkipTask(manager, t) \/ InRunTask(manager, t))
        /\ \A k \in 1..Len(hist) : Hit(k) =>
              \A t \in manager.tasks[hist[k].args.task_id].targets :
                  (t \in EmittedTemplates(args.emits)) <=> InRunTask(manager, t)

C1_Witness ==
    /\ ret.op = "execute"
    /\ \E k \in 1..Len(hist) : Hit(k) /\ \E t \in manager.tasks[hist[k].args.task_id].targets :
          InRunTask(manager, t) /\ t \in EmittedTemplates(args.emits)

\* C2: a name first submitted with template t1 for task A and then with an
\* equal-spec template t2 (a template of no task so far) for task B: both calls
\* return t1, both target sets hold t1 and neither holds t2.
TwoSubmits ==
    /\ Len(hist) >= 2
    /\ hist[Len(hist) - 1].op = "submit" /\ ret.op = "submit"
    /\ hist[Len(hist) - 1].args.name = args.name
    /\ ~hist[Len(hist) - 1].args.known
    /\ hist[Len(hist) - 1].args.task_id # NoTask /\ args.task_id # NoTask
    /\ manager.heap[hist[Len(hist) - 1].args.template].spec = manager.heap[args.template].spec
    /\ ~InSomeTask(prev, args.template)

C2_SharedInstance ==
    TwoSubmits =>
        /\ hist[Len(hist) - 1].raised = "" /\ ret.raised = ""
        /\ hist[Len(hist) - 1].value = hist[Len(hist) - 1].args.template
        /\ ret.value = hist[Len(hist) - 1].args.template
        /\ hist[Len(hist) - 1].args.template \in manager.tasks[hist[Len(hist) - 1].args.task_id].targets
        /\ hist[Len(hist) - 1].args.template \in manager.tasks[args.task_id].targets
        /\ ~InSomeTask(manager, args.template)

C2_Witness == TwoSubmits /\ hist[Len(hist) - 1].args.task_id # args.task_id

\* C3: a submit under a registered name with a differing spec fails with the
\* DuplicateTargetError kind.
DifferingSpec ==
    /\ ret.op = "submit" /\ args.known
    /\ manager.heap[Stored(prev, args.name)].spec # manager.heap[args.template].spec

C3_DuplicateTargetError == DifferingSpec => ret.raised = "DuplicateTargetError"

\* C4: the instance registered under a name is the one given to the first
\* submit of that name; no operation replaces it or removes the name.
C4_IdentityFixed ==
    /\ \A i \in 1..Len(prev.targets) :
          i <= Len(manager.targets) /\ manager.targets[i] = prev.targets[i]
    /\ (ret.op = "submit" /\ ~args.known /\ ret.raised = "") =>
          Registered(manager, args.name) /\ Stored(manager, args.name) = args.template

C4_Witness ==
    /\ ret.op = "submit" /\ args.known /\ ret.raised = ""
    /\ args.template # Stored(manager, args.name)

\* C5: a guarded call that is given a manager runs the wrapped function exactly
\* once, also when the digest on disk matches.
C5_AlwaysInvoked ==
    (ret.op = "cache_task" /\ args.call.manager) =>
        /\ args.invoked = 1
        /\ (args.call.body = B1 /\ ret.raised = "") => Registered(manager, "n1")

C5_Witness ==
    /\ ret.op = "cache_task" /\ Hit(Len(hist)) /\ args.invoked = 1
    /\ ~Registered(prev, "n1") /\ Registered(manager, "n1")

\* C6: a guarded call turns its task's should_submit to false exactly when the
\* digest it computed is the one on disk; without a digest file it never does.
C6_FalseIffMatch ==
    ret.op = "cache_task" =>
        /\ \A id \in DOMAIN manager.tasks :
              (ShouldSubmit(prev, id) /\ ~manager.tasks[id].should_submit)
                  <=> (id = args.task_id /\ ShouldSubmit(prev, id) /\ Hit(Len(hist)))
        /\ \A id \in DOMAIN manager.tasks :
              ~persisted[id].exists => manager.tasks[id].should_submit = ShouldSubmit(prev, id)

C6_Witness ==
    /\ ret.op = "cache_task" /\ Hit(Len(hist))
    /\ ShouldSubmit(prev, args.task_id) /\ ~manager.tasks[args.task_id].should_submit

\* C7: a task starts with should_submit true (a task created by the guarded
\* call that hits is the one exception within that call), and once false it
\* stays false through every operation.
C7_OneWay ==
    /\ \A id \in DOMAIN prev.tasks :
          /\ id \in DOMAIN manager.tasks
          /\ ~prev.tasks[id].should_submit => ~manager.tasks[id].should_submit
    /\ \A id \in DOMAIN manager.tasks \ DOMAIN prev.tasks :
          manager.tasks[id].should_submit \/ (id = args.task_id /\ Hit(Len(hist)))

C7_Witness ==
    /\ ret.op = "cache_task" /\ ~Hit(Len(hist)) /\ args.sha256_hash # <<>>
    /\ args.task_id \in DOMAIN prev.tasks
    /\ ~prev.tasks[args.task_id].should_submit /\ ~manager.tasks[args.task_id].should_submit

\* C10: the digest-writing job of every successful guarded call is in no
\* task's target set and is emitted by every execute().
CacheJob(k) == Stored(manager, "task_" \o hist[k].args.task_id)
Succeeded(k) == hist[k].op = "cache_task" /\ hist[k].raised = ""
\* some submit with a task id returned the instance j
GivenToTask(j) ==
    \E k \in 1..Len(hist) :
        hist[k].op = "submit" /\ hist[k].raised = "" /\ hist[k].args.task_id # NoTask /\ hist[k].value = j

C10_NeverSkipped ==
    \A k \in 1..Len(hist) : Succeeded(k) =>
        /\ ~InSomeTask(manager, CacheJob(k))
        /\ ret.op = "execute" => CacheJob(k) \in EmittedTemplates(args.emits)

\* C10, amended: ... unless a submit with a task id has returned that instance
\* (a submit under the name task_<id>, or of the instance under another name).
C10_NeverSkippedUnlessGiven ==
    \A k \in 1..Len(hist) : (Succeeded(k) /\ ~GivenToTask(CacheJob(k))) =>
        /\ ~InSomeTask(manager, CacheJob(k))
        /\ ret.op = "execute" => CacheJob(k) \in EmittedTemplates(args.emits)

C10_Witness ==
    /\ ret.op = "execute"
    /\ \E k \in 1..Len(hist) :
          /\ Succeeded(k) /\ Hit(k) /\ ~GivenToTask(CacheJob(k))
          /\ ~manager.tasks[hist[k].args.task_id].should_submit
          /\ CacheJob(k) \in EmittedTemplates(args.emits)

\* how often each path occurs in a sequence of paths
BagOf(ls) == [q \in Range(ls) |-> Cardinality({i \in 1..Len(ls) : ls[i] = q})]
BothCalled == dg.a.set /\ dg.b.set

\* C8: two guarded calls whose fingerprint sequences differ, or whose sorted
\* lists of leaf output paths differ, compute different digests.
C8_ChangeChangesDigest ==
    (BothCalled /\ (dg.a.fingerprints # dg.b.fingerprints \/ BagOf(dg.a.leaves) # BagOf(dg.b.leaves)))
        => dg.a.digest # dg.b.digest

\* C9: two guarded calls with the same fingerprints in the same order and the
\* same output paths compute the same digest, whatever the keys, the order of
\* insertion and the nesting of the result.
C9_Deterministic ==
    (BothCalled /\ dg.a.fingerprints = dg.b.fingerprints /\ BagOf(dg.a.leaves) = BagOf(dg.b.leaves))
        => dg.a.digest = dg.b.digest

C9_Witness ==
    /\ BothCalled /\ dg.a.fingerprints = dg.b.fingerprints /\ dg.a.fingerprints # <<>>
    /\ BagOf(dg.a.leaves) = BagOf(dg.b.leaves)
    /\ dg.a.leaves # dg.b.leaves
    /\ dg.a.task_outputs.items[1].k # dg.b.task_outputs.items[1].k
    /\ dg.a.digest = dg.b.digest
\* the paths among the inputs, and among the outputs, of a set of template instances
InputPaths(M, ts) == UNION {Range(flatten(M.heap[t].inputs)) : t \in ts}
OutputPaths(M, ts) == UNION {Range(flatten(M.heap[t].outputs)) : t \in ts}
UnderOutput(q) == q # <<>> /\ Head(q) = "output"
\* the digest-writing job the last guarded call built: the newest instance
BuiltCacheJob == manager.heap[Len(manager.heap)]
TaskTargets == manager.tasks[args.task_id].targets

\* C11: the inputs of the digest-writing job a guarded call builds are the
\* output paths of the task's targets that no target of the task consumes as an
\* input, together with the task's output paths under "output".
C11_InputsAreUnconsumedOutputs ==
    (ret.op = "cache_task" /\ ret.raised = "") =>
        Range(flatten(BuiltCacheJob.inputs))
            = (OutputPaths(manager, TaskTargets) \ InputPaths(manager, TaskTargets))
                \cup {q \in OutputPaths(manager, TaskTargets) : UnderOutput(q)}
\* the last operation ran execute_workflow: called directly, or by the close of
\* a construction block that no exception left
Executed == ret.op = "execute" \/ (ret.op = "exit" /\ args.exc_type = "")
CleanUps(out) == {i \in 1..Len(out) : out[i].tmpl = 0}
FreeTemplates(M) == {t \in RegisteredTemplates(M) : ~InSomeTask(M, t)}

\* C12: every execute() emits exactly one clean-up job, whatever the templates
\* registered and the tasks' flags.
C12_OneCleanUp == Executed => Cardinality(CleanUps(args.emits)) = 1

\* C13: the inputs of the clean-up job an execute() emits are the outputs of
\* exactly the registered templates that are in no task's target set.
C13_CleanUpInputs ==
    Executed => \A i \in CleanUps(args.emits) :
        Range(flatten(args.emits[i].template.inputs)) = OutputPaths(manager, FreeTemplates(manager))

C13_Witness ==
    /\ Executed /\ CleanUps(args.emits) # {}
    /\ \E t \in RegisteredTemplates(manager) : InSkipTask(manager, t) /\ ~InRunTask(manager, t)
    /\ \E t \in RegisteredTemplates(manager) : InRunTask(manager, t)
    /\ \E k \in 1..Len(hist) : Succeeded(k) /\ CacheJob(k) \in FreeTemplates(manager)
    /\ \E i \in CleanUps(args.emits) :
          /\ output_sha256_file("f_a") \in Range(flatten(args.emits[i].template.inputs))
          /\ PA \notin Range(flatten(args.emits[i].template.inputs))

\* the registered entries execute() must emit, in the registry's order
Emitted(e) == ~InSkipTask(manager, e.tmpl) \/ InRunTask(manager, e.tmpl)
Due == SelectSeq(manager.targets, Emitted)
NamesOf(out) == [i \in 1..Len(out) |-> out[i].name]
Jobs(out) == SelectSeq(out, LAMBDA e : e.tmpl # 0)

\* C14: names enter the registry at its end and never move; execute() emits the
\* registered templates that are not skipped in that order, once per registered
\* name, and the clean-up job after all of them.
C14_RegistrationOrder ==
    /\ SubSeq(manager.targets, 1, Len(prev.targets)) = prev.targets
    /\ Executed =>
          /\ NamesOf(Jobs(args.emits)) = [i \in 1..Len(Due) |-> legalize_for_gwf(Due[i].name)]
          /\ [i \in 1..Len(Due) |-> Jobs(args.emits)[i].tmpl] = [i \in 1..Len(Due) |-> Due[i].tmpl]
          /\ CleanUps(args.emits) \subseteq {Len(args.emits)}

C14_Witness ==
    /\ Executed /\ Len(args.emits) = 3 /\ CleanUps(args.emits) = {3}
    /\ args.emits[1].name = "n1" /\ args.emits[2].name = "n_2"
    /\ hist[1].op = "submit" /\ hist[1].args.name = "n1"

\* C15: when a failure leaves the construction block, or arises while the
\* closing block executes the workflow, the engine has received nothing.
C15_NoPartialGraph ==
    (ret.op = "exit" /\ (args.exc_type # "" \/ ret.raised # "")) => args.emits = <<>>
Result == args.call.body.result
Guard == ret.op = "cache_task" /\ args.call.manager

\* C16: a guarded call accepts a mapping, an empty mapping and an absent result
\* of the wrapped function, and returns that result unchanged.
C16_ResultUnchanged ==
    (Guard /\ Result.tag \in {"dict", "none"}) =>
        /\ ret.raised # "TaskOutputError"
        /\ ret.raised = "" => ret.value = Result

\* C16, amended: ... and returns a non-empty mapping unchanged, an empty mapping
\* or an absent result as an empty mapping.
C16_MappingUnchangedAbsentEmpty ==
    (Guard /\ Result.tag \in {"dict", "none"}) =>
        /\ ret.raised # "TaskOutputError"
        /\ ret.raised = "" =>
              ret.value = (IF Result.tag = "dict" /\ Result.items # <<>> THEN Result ELSE Dict(<<>>))

C16_Witness ==
    /\ Guard /\ Result = None /\ ret.raised = "" /\ ret.value = Dict(<<>>)
    /\ \E k \in 1..(Len(hist) - 1) :
          hist[k].op = "cache_task" /\ hist[k].args.call.body = B1 /\ hist[k].value = B1.result

\* C17: a guarded call without a manager argument fails with the
\* ConfigurationError kind, the wrapped function not run and the Manager as before.
C17_ConfigurationError ==
    (ret.op = "cache_task" /\ ~args.call.manager) =>
        ret.raised = "ConfigurationError" /\ args.invoked = 0 /\ manager = prev

\* the wrapped function of the last guarded call returned: none of its submits
\* met a registered name with another spec
FunctionReturned ==
    \A i \in 1..Len(args.call.body.jobs) :
        Registered(prev, args.call.body.jobs[i].name) =>
            prev.heap[Stored(prev, args.call.body.jobs[i].name)].spec = args.call.body.jobs[i].template.spec
Outputs(M, id) == IF id \in DOMAIN M.tasks THEN M.tasks[id].outputs ELSE <<>>
NewEntries == {manager.targets[i].name : i \in (Len(prev.targets) + 1)..Len(manager.targets)}

C19_NotFoundKind ==
    (ret.op = "get_task_output" /\ args.output_name \notin DOMAIN Outputs(prev, args.task_id)) =>
        ret.raised \in {"TaskNotFoundError", "OutputNotFoundError"} /\ manager = prev

\* the mapping hist[k] merged into the outputs of task id, if it merged one
Merges(k, id) ==
    /\ hist[k].op \in {"update_task_output", "cache_task"} /\ hist[k].raised = ""
    /\ hist[k].args.task_id = id
Mapping(k) == IF hist[k].op = "cache_task" THEN hist[k].value ELSE hist[k].args.paths_dict
HasKey(m, key) == \E i \in 1..Len(m.items) : m.items[i].k = key
ValueOf(m, key) == m.items[CHOOSE i \in 1..Len(m.items) : m.items[i].k = key].v
MergesOf(id, key) == {k \in 1..Len(hist) : Merges(k, id) /\ HasKey(Mapping(k), key)}
LastMerge(id, key) == CHOOSE k \in MergesOf(id, key) : \A j \in MergesOf(id, key) : j <= k

\* C20: a task's accumulated outputs hold, for every key, the value of the last
\* mapping merged for that task id that had the key, and nothing else;
\* get_task_output returns that value.
C20_LaterKeysOverwrite ==
    /\ \A id \in DOMAIN manager.tasks :
          /\ \A key \in DOMAIN manager.tasks[id].outputs : MergesOf(id, key) # {}
          /\ \A key \in {"o", "p"} : MergesOf(id, key) # {} =>
                /\ key \in DOMAIN manager.tasks[id].outputs
                /\ manager.tasks[id].outputs[key] = ValueOf(Mapping(LastMerge(id, key)), key)
    /\ (ret.op = "get_task_output" /\ MergesOf(args.task_id, args.output_name) # {}) =>
          /\ ret.raised = ""
          /\ ret.value = ValueOf(Mapping(LastMerge(args.task_id, args.output_name)), args.output_name)

C20_Witness ==
    /\ ret.op = "get_task_output" /\ ret.raised = "" /\ Len(hist) = 3
    /\ Merges(1, args.task_id) /\ Merges(2, args.task_id)
    /\ hist[1].op # hist[2].op
    /\ HasKey(Mapping(1), "o") /\ HasKey(Mapping(2), "o")
    /\ ValueOf(Mapping(1), "o") # ValueOf(Mapping(2), "o")
    /\ ret.value = ValueOf(Mapping(2), "o")
\* the two mappings give the same value to every key both have
Agree(m1, m2) ==
    \A key \in {"o", "p"} : (HasKey(m1, key) /\ HasKey(m2, key)) => ValueOf(m1, key) = ValueOf(m2, key)
\* the outputs of the task of the last update had m1 been merged before its mapping
MergedBefore(m1) ==
    update_task_output(update_task_output(prev, args.task_id, m1), args.task_id, args.paths_dict)
        .tasks[args.task_id].outputs
\* ... and with m1 merged after it
MergedAfter(m1) == update_task_output(manager, args.task_id, m1).tasks[args.task_id].outputs

\* C21: merging two mappings into a task's outputs in either order leaves the
\* same accumulated outputs.
C21_OrderIndependent ==
    ret.op = "update_task_output" => \A m1 \in Mappings : MergedAfter(m1) = MergedBefore(m1)

\* C21, amended: ... for two mappings that give the same value to every key they
\* share; for a key they give different values, the later merge decides.
C21_OrderIndependentIfAgree ==
    ret.op = "update_task_output" => \A m1 \in Mappings :
        /\ Agree(m1, args.paths_dict) => MergedAfter(m1) = MergedBefore(m1)
        /\ \A key \in {"o", "p"} : HasKey(m1, key) =>
              /\ MergedAfter(m1)[key] = ValueOf(m1, key)
              /\ HasKey(args.paths_dict, key) => MergedBefore(m1)[key] = ValueOf(args.paths_dict, key)

C21_Witness ==
    /\ ret.op = "update_task_output" /\ Outputs(prev, args.task_id) # <<>>
    /\ \E m1 \in Mappings :
          /\ m1 # args.paths_dict /\ Agree(m1, args.paths_dict)
          /\ HasKey(m1, "p") /\ HasKey(args.paths_dict, "p")
          /\ MergedAfter(m1) = MergedBefore(m1)
          /\ MergedAfter(m1) # manager.tasks[args.task_id].outputs
\* the guarded calls so far that were given a manager
GuardedOps == {k \in 1..Len(hist) : hist[k].op = "cache_task" /\ hist[k].args.call.manager}
\* the name of the first fingerprint-bearing value of a sequence of arguments
NameOfFirst(vs) ==
    IF \A i \in 1..Len(vs) : ~vs[i].sample THEN "<none>"
    ELSE vs[CHOOSE i \in 1..Len(vs) : vs[i].sample /\ \A j \in 1..(i - 1) : ~vs[j].sample].name
Positional(k) == hist[k].args.call.args
Keyword(k) == hist[k].args.call.kwargs

\* C26: two guarded calls of one function get the same task id exactly when
\* their first fingerprint-bearing arguments, in call order, have the same name.
C26_FirstArgumentDecides ==
    \A k1, k2 \in GuardedOps :
        (hist[k1].args.task_id = hist[k2].args.task_id)
            <=> (NameOfFirst(Positional(k1) \o Keyword(k1)) = NameOfFirst(Positional(k2) \o Keyword(k2)))

\* C26, amended: ... their first fingerprint-bearing keyword arguments have the
\* same name; positional arguments, later fingerprint-bearing arguments and all
\* other arguments do not affect the id.
C26_FirstKeywordDecides ==
    \A k1, k2 \in GuardedOps :
        (hist[k1].args.task_id = hist[k2].args.task_id) <=> (NameOfFirst(Keyword(k1)) = NameOfFirst(Keyword(k2)))

C26_Witness ==
    \E k1, k2, k3 \in GuardedOps :
        /\ Keyword(k1) = <<SA>> /\ Positional(k1) = <<>>
        /\ Keyword(k2) = <<Plain, SA, SB>> /\ hist[k2].args.task_id = hist[k1].args.task_id
        /\ Keyword(k3) = <<SB>> /\ hist[k3].args.task_id # hist[k1].args.task_id

\* C29: a submit that fails on a differing spec leaves the registry and the
\* tasks as they were; no task is created for its task id.
C29_FailedSubmitNoEffect ==
    (ret.op = "submit" /\ ret.raised # "") =>
        /\ DifferingSpec
        /\ manager.targets = prev.targets
        /\ manager.tasks = prev.tasks

C29_Witness ==
    /\ ret.op = "submit" /\ ret.raised # "" /\ DifferingSpec
    /\ args.task_id # NoTask /\ args.task_id \notin DOMAIN manager.tasks
    /\ manager.tasks # <<>>

\* the guarded call hist[k] got as far as computing its digest
Computed(k) == k \in GuardedOps /\ hist[k].args.sha256_hash # <<>>
CacheJobsOf(id) == {i \in 1..Len(manager.targets) : manager.targets[i].name = "task_" \o id}

\* C30: after a guarded call that succeeded, a guarded call for the same task id
\* that computes another digest fails; a task id with a successful guarded call
\* has one digest-writing job, whose script (unless a scratch wrapper has
\* rewritten it) writes the digest of every successful guarded call for that id.
C30_OneDigestPerTask ==
    /\ \A k1, k2 \in GuardedOps :
          (k1 < k2 /\ Succeeded(k1) /\ Computed(k2) /\ hist[k1].args.task_id = hist[k2].args.task_id
              /\ hist[k1].args.sha256_hash # hist[k2].args.sha256_hash)
          => hist[k2].raised = "AssertionError"
    /\ \A k \in GuardedOps : Succeeded(k) =>
          /\ Cardinality(CacheJobsOf(hist[k].args.task_id)) = 1
          /\ manager.heap[CacheJob(k)].spec.cmd = <<"echo">>
                => manager.heap[CacheJob(k)].spec.hash = hist[k].args.sha256_hash

C30_Witness ==
    \E k1, k2 \in GuardedOps :
        /\ k1 < k2 /\ Succeeded(k1) /\ Computed(k2) /\ hist[k1].args.task_id = hist[k2].args.task_id
        /\ hist[k1].args.sha256_hash # hist[k2].args.sha256_hash
        /\ hist[k2].raised = "AssertionError"
        /\ manager.heap[CacheJob(k1)].spec.hash = hist[k1].args.sha256_hash
\* C28: flatten of a nesting of mappings and sequences returns the leaf paths
\* of the structure, each as often as it occurs and in the order of the
\* structure; keys and empty containers contribute nothing.
C28_ExactlyTheLeaves ==
    /\ dg.a.set => dg.a.flat = dg.a.leaves
    /\ dg.b.set => dg.b.flat = dg.b.leaves

C28_Witness ==
    /\ BothCalled
    /\ Len(dg.a.leaves) = 2 /\ dg.a.leaves[1] # dg.a.leaves[2] /\ dg.a.flat = dg.a.leaves
    /\ Len(dg.a.task_outputs.items) = 2 /\ dg.a.task_outputs.items[1].v.tag = "dict"
    /\ dg.b.leaves = <<>> /\ dg.b.flat = <<>> /\ dg.b.task_outputs.items # <<>>
\* the relative leaf paths of a nested value, and their directories
RelativePaths(obj) == {p \in Range(flatten(obj)) : p = <<>> \/ Head(p) # "/"}
Dirs(S) == {dirname(p) : p \in S}
Rep(kind, n) == [i \in 1..n |-> kind]
Lines(w) == w.after.spec.lines
Kinds(w) == [i \in 1..Len(Lines(w)) |-> Lines(w)[i].cmd]
Operands(w, kind) == {Lines(w)[i].b : i \in {j \in 1..Len(Lines(w)) : Lines(w)[j].cmd = kind}}
NIn(w) == Cardinality(RelativePaths(w.before.inputs))
NInDirs(w) == Cardinality(Dirs(RelativePaths(w.before.inputs)))
NOut(w) == Cardinality(RelativePaths(w.before.outputs))
NOutDirs(w) == Cardinality(Dirs(RelativePaths(w.before.outputs)))

\* the generated script of w has its steps in the order of the claim
InOrder(w) ==
    /\ Kinds(w) = <<"SCRATCH_DIR=", "mkdir -p", "cd">>
                    \o Rep("mkdir -p", NInDirs(w)) \o Rep("ln -s", NIn(w)) \o Rep("mkdir -p", NOutDirs(w))
                    \o <<"body", "sync", "cd">>
                    \o Rep("mkdir -p", NOutDirs(w)) \o Rep("mv", NOut(w)) \o <<"rm -rf">>
    /\ Lines(w)[2].a = <<"${SCRATCH_DIR}">> /\ Lines(w)[3].a = <<"${SCRATCH_DIR}">>
    /\ Lines(w)[Len(Lines(w))].a = <<"${SCRATCH_DIR}">>
    /\ Operands(w, "ln -s") = RelativePaths(w.before.inputs)
    /\ Operands(w, "mv") = RelativePaths(w.before.outputs)
    /\ \A i, j \in 1..Len(Lines(w)) :
          /\ (Lines(w)[i].cmd = "ln -s" /\ Lines(w)[j].cmd = "body") => i < j
          /\ (Lines(w)[i].cmd = "sync" /\ Lines(w)[j].cmd = "mv") => i < j
          /\ (Lines(w)[i].cmd = "sync" /\ Lines(w)[j].cmd = "cd" /\ i < j)
                => Lines(w)[j].a = <<"${GWF_EXEC_WORKFLOW_ROOT}">>

\* C22: the script the scratch wrapper generates has its steps in this order:
\* scratch root created, cd into it, input directories, the symlinks of all
\* relative inputs, output directories, the body, sync, cd back, output
\* directories again, the moves of all relative outputs, scratch root removed.
C22_StepsInOrder == (sc.a.set => InOrder(sc.a)) /\ (sc.b.set => InOrder(sc.b))

C22_Witness ==
    /\ sc.a.set /\ NIn(sc.a) = 2 /\ NInDirs(sc.a) = 2 /\ NOut(sc.a) = 1 /\ InOrder(sc.a)
    /\ Len(Lines(sc.a)) = 14

\* C23: when the run of a generated script has ended, the scratch root is gone.
C23_ScratchRemoved == sc.run.done => ~sc.run.root

BodyOf(w) == {Lines(w)[i].body : i \in {j \in 1..Len(Lines(w)) : Lines(w)[j].cmd = "body"}}
Frame(w) ==
    /\ w.after.inputs = w.before.inputs /\ w.after.outputs = w.before.outputs
    /\ w.after.options = w.before.options
    /\ w.after.spec # w.before.spec

\* C24: wrapping leaves the template's inputs, outputs and options as they were
\* and the original script body is, unmodified, the body of the new script.
C24_OnlySpecChanged ==
    \A w \in {sc.a, sc.b} : w.set => Frame(w) /\ BodyOf(w) = {w.before.spec}

\* C24, amended: ... and the original script body, without the white space
\* before and after it, is the body of the new script.
C24_OnlySpecChangedBodyStripped ==
    \A w \in {sc.a, sc.b} : w.set =>
        Frame(w) /\ BodyOf(w) = {[cmd |-> strip(w.before.spec.cmd), hash |-> <<>>, file |-> <<>>]}

C24_Witness ==
    /\ sc.a.set /\ sc.a.entry = "custom" /\ sc.a.before.spec.cmd = <<" ", "x", NL>>
    /\ sc.a.before.inputs.items # <<>> /\ sc.a.before.outputs.items # <<>>
    /\ Frame(sc.a) /\ \E body \in BodyOf(sc.a) : body.cmd = <<"x">>
    /\ sc.b.set /\ Lines(sc.b)[1].a = <<"custom">>

\* the groups of generated commands of w: each strictly ascending, hence sorted
\* and without a repeated command
Group(w, from, n) == SubSeq(Lines(w), from, from + n - 1)
Ascending(g) == \A i, j \in 1..Len(g) : i < j => CmdLess(g[i], g[j])
Groups(w) ==
    {Group(w, 4, NInDirs(w)), Group(w, 4 + NInDirs(w), NIn(w)),
     Group(w, 4 + NInDirs(w) + NIn(w), NOutDirs(w)),
     Group(w, 7 + NInDirs(w) + NIn(w) + NOutDirs(w), NOutDirs(w)),
     Group(w, 7 + NInDirs(w) + NIn(w) + 2 * NOutDirs(w), NOut(w))}
NoAbsolute(w) ==
    \A i \in 1..Len(Lines(w)) :
        /\ Lines(w)[i].cmd \in {"ln -s", "mv"} => Lines(w)[i].b # <<>> /\ Head(Lines(w)[i].b) # "/"
        /\ Lines(w)[i].cmd = "mkdir -p" => Lines(w)[i].a = <<>> \/ Head(Lines(w)[i].a) # "/"

\* C27: two templates with the same body and the same sets of relative input
\* and output paths get the same script; every group of commands is sorted and
\* free of repetition, and no command is generated for an absolute path.
C27_DeterministicInPathSets ==
    /\ (sc.a.set /\ sc.b.set /\ sc.a.before.spec = sc.b.before.spec /\ sc.a.entry = sc.b.entry
          /\ RelativePaths(sc.a.before.inputs) = RelativePaths(sc.b.before.inputs)
          /\ RelativePaths(sc.a.before.outputs) = RelativePaths(sc.b.before.outputs))
       => sc.a.after.spec = sc.b.after.spec
    /\ \A w \in {sc.a, sc.b} : w.set => NoAbsolute(w) /\ \A g \in Groups(w) : Ascending(g)

C27_Witness ==
    /\ sc.a.set /\ sc.b.set /\ sc.a.after.spec = sc.b.after.spec
    /\ NIn(sc.a) = 2 /\ NOut(sc.a) = 1
    /\ Len(flatten(sc.a.before.inputs)) = 2 /\ flatten(sc.b.before.inputs) = Reverse(flatten(sc.a.before.inputs))
    /\ Len(sc.a.before.inputs.items) = 1 /\ Len(sc.b.before.inputs.items) = 2
    /\ flatten(sc.a.before.outputs) = <<<<"b", "/", "a">>, <<"b", "/", "a">>>>
    /\ flatten(sc.b.before.outputs) = <<<<"/", "b">>, <<"b", "/", "a">>>>

WasRegistered(t) == t \in RegisteredTemplates(prev)

\* C25: a registered template instance keeps its spec and the structure of its
\* inputs and outputs through every operation; only execute() changes its
\* inputs and outputs, by casting their leaves to strings.
C25_NeverMutated ==
    \A t \in 1..Len(prev.heap) : WasRegistered(t) =>
        /\ manager.heap[t].spec = prev.heap[t].spec
        /\ cast_to_str(manager.heap[t].inputs) = cast_to_str(prev.heap[t].inputs)
        /\ cast_to_str(manager.heap[t].outputs) = cast_to_str(prev.heap[t].outputs)
        /\ ret.op \notin {"execute", "exit"} =>
              /\ manager.heap[t].inputs = prev.heap[t].inputs
              /\ manager.heap[t].outputs = prev.heap[t].outputs
ListNames == {sl.list[i].name : i \in 1..Len(sl.list)}

\* C31: in a SampleList no two samples share a name, the index _sample_dict maps
\* exactly the names of the samples in the list, each to its sample, and an
\* operation rejected for a duplicate name leaves list and index as they were.
C31_UniqueNamesIndexed ==
    sl.set =>
        /\ \A i, j \in 1..Len(sl.list) : i # j => sl.list[i].name # sl.list[j].name
        /\ DOMAIN sl.sample_dict = ListNames
        /\ \A i \in 1..Len(sl.list) : sl.sample_dict[sl.list[i].name] = sl.list[i]
        /\ sl.raised = "ValueError" =>
              sl.list = sl.before.list /\ sl.sample_dict = sl.before.sample_dict
====
